---- MODULE Spec2Model ----
(***************************************************************************)
(* The refinement controller of 64bit-Map-Weaver: the useMapGeneration      *)
(* hook (generateMap, manualRefine, clearGeneration) driven by the buttons  *)
(* of the control panel.  Every await of the hook is a suspension point:    *)
(* one action issues the call, another one resumes the run when the call    *)
(* resolves or rejects.  Images are small integers, 0 is null.              *)
(* The worker that analyses images (detectLeaks, generateDiff) is modelled   *)
(* on small bitmaps, pixel by pixel, in specifications of its own.          *)
(***************************************************************************)
EXTENDS Integers, Sequences, FiniteSets, TLC

\* ---- bounds -------------------------------------------------------------
MaxN == 2          \* largest maxRefinements the user picks (slider: 0..5)
MaxHist == 3       \* manualRefine is not started on a longer history
NumImages == 2     \* distinct images the external model can return
MaxRuns == 2       \* slots for runs of the hook (the panel starts one at a time)

NULL == 0
Images == 1..NumImages
Slots == 1..MaxRuns
NoReason == "null"
NoError == "null"
Blueprint == 1

\* ---- parseErrorMessage ----------------------------------------------------
\* The message of the caught error, by the substring the classifier looks for.
Messages == {"api key", "quota", "network", "refusal", "other"}

parseErrorMessage(message) ==
    CASE message = "api key" -> "Failed to generate map. Your API key might be invalid"
      [] message = "quota"   -> "You have exceeded your API quota"
      [] message = "network" -> "A network error occurred"
      [] message = "refusal" -> "The AI was unable to generate an image"
      [] OTHER               -> message

\* ---- hasBlueprintLeaks -----------------------------------------------------
\* What can happen to one analysis: it runs to its end and finds a blob or
\* none, the image cannot be decoded, the analysis throws, or the worker
\* raises an error event.
AnalysisOutcomes == {"blob", "clean", "decode_failure", "exception", "worker_error"}
FailedAnalyses == {"decode_failure", "exception", "worker_error"}

\* performLeakDetection: loadImage and the passes run inside one try block
\* whose catch returns the safe result.
performLeakDetection(o) ==
    IF o \in {"decode_failure", "exception"}
    THEN [needsRefinement |-> FALSE, leakMapUrl |-> NULL]
    ELSE [needsRefinement |-> (o = "blob"), leakMapUrl |-> 1]

\* self.onmessage of the worker: the message posted back for a command.
WorkerOnMessage(command, o) ==
    IF command = "detectLeaks"
    THEN [error |-> FALSE, result |-> performLeakDetection(o).needsRefinement]
    ELSE [error |-> TRUE, result |-> FALSE]

\* Variant: an error event of the worker rejects the promise.
hasBlueprintLeaks_ErrorRejects(o) ==
    IF o = "worker_error"
    THEN [settled |-> "rejected", needsRefinement |-> FALSE]
    ELSE [settled |-> "resolved",
          needsRefinement |-> WorkerOnMessage("detectLeaks", o).result]

\* hasBlueprintLeaks: worker.onerror resolves with the safe result;
\* worker.onmessage rejects on an error message and resolves otherwise.
hasBlueprintLeaks(o) ==
    IF o = "worker_error"
    THEN [settled |-> "resolved", needsRefinement |-> FALSE]
    ELSE LET data == WorkerOnMessage("detectLeaks", o)
         IN IF data.error
            THEN [settled |-> "rejected", needsRefinement |-> FALSE]
            ELSE [settled |-> "resolved", needsRefinement |-> data.result]

VARIABLES
    isLoading,        \* useState<boolean>(false)
    error,            \* useState<string | null>(null)
    generatedImage,   \* useState<string | null>(null)
    blueprintImage,   \* useState<string | null>(null)
    analysisHistory,  \* useState<AnalysisRecord[]>([])
    run,              \* the async invocations of generateMap / manualRefine
    lastEvent         \* the step of the hook taken last

\* The worker that analyses images: one worker is created per call.
VARIABLES
    workerPc,         \* where the worker is in the command it serves
    imgBase,          \* generateDiff: the decoded base image
    imgNew,           \* generateDiff: the decoded new image
    diffThresholdSq,  \* generateDiff: the threshold of the message
    diffResult,       \* generateDiff: what generateDiffMap resolved with
    mapImage,         \* detectLeaks: the decoded map image
    style,            \* detectLeaks: the thresholds of the message
    leaks,            \* detectLeaks: the Uint8Array with a 1 for every leak pixel
    visitedForFlatness, \* detectLeaks: the Uint8Array of pass 1
    visited,          \* detectLeaks: the Uint8Array of pass 4
    results           \* detectLeaks: what the calls made so far resolved with

hookVars == <<isLoading, error, generatedImage, blueprintImage, analysisHistory, run, lastEvent>>
diffVars == <<imgBase, imgNew, diffThresholdSq, diffResult>>
detectVars == <<mapImage, style, leaks, visitedForFlatness, visited, results>>
workerVars == <<workerPc, diffVars, detectVars>>
vars == <<hookVars, workerVars>>

\* No worker exists between two calls.
WorkerOff ==
    /\ workerPc = "off"
    /\ imgBase = NULL /\ imgNew = NULL /\ diffThresholdSq = 0 /\ diffResult = NULL
    /\ mapImage = NULL /\ style = NULL /\ results = <<>>
    /\ leaks = <<>> /\ visitedForFlatness = <<>> /\ visited = <<>>

\* ---- helpers --------------------------------------------------------------
Call(op, a, b) == [op |-> op, a |-> a, b |-> b]

IdleRun ==
    [kind |-> "none", pc |-> "idle", maxRefinements |-> 0, local |-> <<>>,
     currentMapUrl |-> NULL, previousMapUrl |-> NULL, passedCheck |-> FALSE,
     refinementCount |-> 0, aiChangeMap |-> NULL, lastRevision |-> 0,
     calls |-> <<>>, outcomes |-> <<>>, snapshot |-> <<>>, failed |-> FALSE,
     superseded |-> FALSE]

\* calls, outcomes and snapshot record what the invocation did: the external
\* calls it issued, the needsRefinement values its analyses returned, and the
\* history as it was when manualRefine was invoked.  superseded records that
\* clearGeneration was called while the invocation was suspended.
InFlight == {s \in Slots : run[s].pc \notin {"idle", "done"}}

\* A slot is free when no invocation is suspended in it.
FreeSlots == {s \in Slots : run[s].pc \in {"idle", "done"}}
FreeSlot == CHOOSE s \in FreeSlots : \A t \in FreeSlots : s <= t

\* Record objects are shared by reference between the state array and the
\* local arrays copied from it; oid is the identity of the object.
LiveOids ==
    {analysisHistory[i].oid : i \in DOMAIN analysisHistory}
        \cup UNION {{run[s].local[i].oid : i \in DOMAIN run[s].local} : s \in Slots}

FreshOid == CHOOSE o \in 1..(Cardinality(LiveOids) + 1) : o \notin LiveOids

\* Variant: the former final record is left as it was.
ClearFinal_Kept(seq, oid) == seq

\* lastRevision.isFinal = false; lastRevision.finalReason = null, seen through
\* every array that holds the object.
ClearFinal(seq, oid) ==
    [i \in DOMAIN seq |->
        IF seq[i].oid = oid
        THEN [seq[i] EXCEPT !.isFinal = FALSE, !.finalReason = NoReason]
        ELSE seq[i]]

\* Variant: the reason is derived from the verdict alone.
FinalReasonOf_VerdictOnly(isFinal, passed) ==
    IF passed THEN "passed" ELSE "limit_reached"

\* finalReason: isFinal ? (passedCheck ? 'passed' : 'limit_reached') : null
FinalReasonOf(isFinal, passed) ==
    IF isFinal THEN (IF passed THEN "passed" ELSE "limit_reached") ELSE NoReason

\* Variant: a budget of zero does not close the run.
IsFinalAfterInitial_PassOnly(passedCheck, maxRefinements) == passedCheck

\* const isFinalAfterInitial = passedCheck || maxRefinements === 0
IsFinalAfterInitial(passedCheck, maxRefinements) ==
    passedCheck \/ maxRefinements = 0

\* Variant: the last allowed refinement is not recognised as the last.
IsFinalAfterRefinement_Late(passedCheck, refinementCount, maxRefinements) ==
    passedCheck \/ refinementCount > maxRefinements

\* const isFinalAfterRefinement = passedCheck || refinementCount >= maxRefinements
IsFinalAfterRefinement(passedCheck, refinementCount, maxRefinements) ==
    passedCheck \/ refinementCount >= maxRefinements

\* Variant: the loop runs once more than the budget allows.
LoopCondition_OffByOne(passedCheck, refinementCount, maxRefinements) ==
    ~passedCheck /\ refinementCount <= maxRefinements

\* while (!passedCheck && refinementCount < maxRefinements)
LoopCondition(passedCheck, refinementCount, maxRefinements) ==
    ~passedCheck /\ refinementCount < maxRefinements

\* revision: refinementCount + 1
GenRevision(refinementCount) == refinementCount + 1

\* Variant: the manual record reuses the number of the record before it.
ManRevision_Reused(lastRevision) == lastRevision

\* revision: (lastRevision?.revision || 0) + 1
ManRevision(lastRevision) == lastRevision + 1

\* Variant: the guard does not look at isLoading.
ManualRefineIgnored_NoLoading(image, loading) == image = NULL

\* if (!generatedImage || isLoading) return;
ManualRefineIgnored(image, loading) == image = NULL \/ loading

Init ==
    /\ isLoading = FALSE
    /\ error = NoError
    /\ generatedImage = NULL
    /\ blueprintImage = NULL
    /\ analysisHistory = <<>>
    /\ run = [s \in Slots |-> IdleRun]
    /\ lastEvent = "init"
    /\ WorkerOff

\* ---- generateMap ----------------------------------------------------------
\* The synchronous part of generateMap, up to the first await.  The inputs
\* are read in the order of the checks: vectorObjects.length === 0,
\* !apiKey.trim(), createAiClient throwing, rasterizeVectorsToImage() === ''.
\* Variant: the state of the previous run is reset before the inputs are checked.
GenInvalid_Resets(err) ==
    /\ error' = err
    /\ generatedImage' = NULL
    /\ analysisHistory' = <<>>
    /\ lastEvent' = "generateMap:invalid"
    /\ UNCHANGED <<isLoading, blueprintImage, run>>

GenInvalid(err) ==
    /\ error' = err
    /\ lastEvent' = "generateMap:invalid"
    /\ UNCHANGED <<isLoading, generatedImage, blueprintImage, analysisHistory, run>>

generateMap(s) ==
    \E drawingEmpty \in BOOLEAN :
      IF drawingEmpty THEN GenInvalid("Please draw something on the blueprint")
      ELSE \E keyBlank \in BOOLEAN :
        IF keyBlank THEN GenInvalid("An API key is required")
        ELSE \E clientThrows \in BOOLEAN :
          IF clientThrows THEN \E msg \in Messages : GenInvalid(parseErrorMessage(msg))
          ELSE \E blueprintEmpty \in BOOLEAN :
            IF blueprintEmpty THEN GenInvalid("Could not create blueprint image.")
            ELSE \E N \in 0..MaxN :
              /\ blueprintImage' = Blueprint
              /\ isLoading' = TRUE
              /\ error' = NoError
              /\ generatedImage' = NULL
              /\ analysisHistory' = <<>>
              /\ run' = [run EXCEPT ![s] =
                    [IdleRun EXCEPT !.kind = "gen", !.pc = "await_generate",
                                    !.maxRefinements = N,
                                    !.calls = <<Call("generate", Blueprint, NULL)>>]]
              /\ lastEvent' = "generateMap:start"

\* await generateMapFromDrawing(...) resolves; hasBlueprintLeaks is called.
GenerateResolves(s, img) ==
    /\ run[s].kind = "gen" /\ run[s].pc = "await_generate"
    /\ run' = [run EXCEPT ![s].currentMapUrl = img,
                          ![s].previousMapUrl = img,
                          ![s].pc = "await_detect0",
                          ![s].calls = Append(@, Call("detect", img, NULL))]
    /\ lastEvent' = "GenerateResolves"
    /\ UNCHANGED <<isLoading, error, generatedImage, blueprintImage, analysisHistory>>

\* Variant: the catch block discards the records logged so far.
GenCatch_Rollback(s, msg, ev) ==
    /\ error' = parseErrorMessage(msg)
    /\ isLoading' = FALSE
    /\ analysisHistory' = <<>>
    /\ run' = [run EXCEPT ![s].pc = "done", ![s].failed = TRUE]
    /\ lastEvent' = ev
    /\ UNCHANGED <<generatedImage, blueprintImage>>

\* catch + finally of generateMap.
GenCatch(s, msg, ev) ==
    /\ error' = parseErrorMessage(msg)
    /\ isLoading' = FALSE
    /\ run' = [run EXCEPT ![s].pc = "done", ![s].failed = TRUE]
    /\ lastEvent' = ev
    /\ UNCHANGED <<generatedImage, blueprintImage, analysisHistory>>

GenerateRejects(s, msg) ==
    /\ run[s].kind = "gen" /\ run[s].pc = "await_generate"
    /\ GenCatch(s, msg, "GenerateRejects")

\* Variant: the refiner is handed the image of the iteration before.
GenLoop_StaleImage(r) ==
    IF LoopCondition(r.passedCheck, r.refinementCount, r.maxRefinements)
    THEN [r EXCEPT !.refinementCount = @ + 1,
                   !.previousMapUrl = r.currentMapUrl,
                   !.pc = "await_refine",
                   !.calls = Append(@, Call("refine", r.previousMapUrl, NULL))]
    ELSE [r EXCEPT !.pc = "await_delay"]

\* The head of the while loop, entered after a record was pushed: either the
\* next iteration starts (refineGeneratedMap is called) or the loop is left
\* and the 1500 ms pause begins.
GenLoop(r) ==
    IF LoopCondition(r.passedCheck, r.refinementCount, r.maxRefinements)
    THEN [r EXCEPT !.refinementCount = @ + 1,
                   !.previousMapUrl = r.currentMapUrl,
                   !.pc = "await_refine",
                   !.calls = Append(@, Call("refine", r.currentMapUrl, NULL))]
    ELSE [r EXCEPT !.pc = "await_delay"]

GenPush(r, rec) == [r EXCEPT !.local = Append(@, rec)]

\* The initial analysis resolves: revision 1 is logged.
GenDetect0Resolves(s, o) ==
    /\ run[s].kind = "gen" /\ run[s].pc = "await_detect0"
    /\ LET res == hasBlueprintLeaks(o)
           needsRefinement == res.needsRefinement
       IN IF res.settled = "rejected"
          THEN GenCatch(s, "other", "GenDetect0Rejects")
          ELSE
           /\ LET passedCheck == ~needsRefinement
                  isFinalAfterInitial == IsFinalAfterInitial(passedCheck, run[s].maxRefinements)
                  rec == [oid |-> FreshOid,
                          revision |-> 1,
                          mapImage |-> run[s].currentMapUrl,
                          aiChangeMap |-> NULL,
                          passed |-> passedCheck,
                          isFinal |-> isFinalAfterInitial,
                          finalReason |-> FinalReasonOf(isFinalAfterInitial, passedCheck),
                          isManual |-> FALSE]
                  r1 == GenPush([run[s] EXCEPT !.passedCheck = passedCheck,
                                              !.outcomes = Append(@, needsRefinement)], rec)
              IN /\ analysisHistory' = r1.local
                 /\ run' = [run EXCEPT ![s] = GenLoop(r1)]
           /\ lastEvent' = IF o \in FailedAnalyses THEN "GenDetect0Resolves:failsafe" ELSE "GenDetect0Resolves"
           /\ UNCHANGED <<isLoading, error, generatedImage, blueprintImage>>

\* await refineGeneratedMap(...) resolves inside the loop; generateDiffMap is called.
GenRefineResolves(s, img) ==
    /\ run[s].kind = "gen" /\ run[s].pc = "await_refine"
    /\ run' = [run EXCEPT ![s].currentMapUrl = img,
                          ![s].pc = "await_diff",
                          ![s].calls = Append(@, Call("diff", run[s].previousMapUrl, img))]
    /\ lastEvent' = "GenRefineResolves"
    /\ UNCHANGED <<isLoading, error, generatedImage, blueprintImage, analysisHistory>>

GenRefineRejects(s, msg) ==
    /\ run[s].kind = "gen" /\ run[s].pc = "await_refine"
    /\ GenCatch(s, msg, "GenRefineRejects")

\* await generateDiffMap(...) resolves (it never rejects); hasBlueprintLeaks is called.
GenDiffResolves(s, diffMapUrl) ==
    /\ run[s].kind = "gen" /\ run[s].pc = "await_diff"
    /\ run' = [run EXCEPT ![s].aiChangeMap = diffMapUrl,
                          ![s].pc = "await_detect",
                          ![s].calls = Append(@, Call("detect", run[s].currentMapUrl, NULL))]
    /\ lastEvent' = "GenDiffResolves"
    /\ UNCHANGED <<isLoading, error, generatedImage, blueprintImage, analysisHistory>>

\* The analysis of a refined map resolves: revision refinementCount + 1 is logged.
GenDetectResolves(s, o) ==
    /\ run[s].kind = "gen" /\ run[s].pc = "await_detect"
    /\ LET res == hasBlueprintLeaks(o)
           needsRefinement == res.needsRefinement
       IN IF res.settled = "rejected"
          THEN GenCatch(s, "other", "GenDetectRejects")
          ELSE
           /\ LET passedCheck == ~needsRefinement
                  isFinalAfterRefinement ==
                      IsFinalAfterRefinement(passedCheck, run[s].refinementCount,
                                             run[s].maxRefinements)
                  rec == [oid |-> FreshOid,
                          revision |-> GenRevision(run[s].refinementCount),
                          mapImage |-> run[s].currentMapUrl,
                          aiChangeMap |-> run[s].aiChangeMap,
                          passed |-> passedCheck,
                          isFinal |-> isFinalAfterRefinement,
                          finalReason |-> FinalReasonOf(isFinalAfterRefinement, passedCheck),
                          isManual |-> FALSE]
                  r1 == GenPush([run[s] EXCEPT !.passedCheck = passedCheck,
                                              !.outcomes = Append(@, needsRefinement)], rec)
              IN /\ analysisHistory' = r1.local
                 /\ run' = [run EXCEPT ![s] = GenLoop(r1)]
           /\ lastEvent' = IF o \in FailedAnalyses THEN "GenDetectResolves:failsafe" ELSE "GenDetectResolves"
           /\ UNCHANGED <<isLoading, error, generatedImage, blueprintImage>>

\* Variant: the image before the last refinement becomes the final image.
GenDelayElapses_PreviousImage(s) ==
    /\ run[s].kind = "gen" /\ run[s].pc = "await_delay"
    /\ generatedImage' = run[s].previousMapUrl
    /\ isLoading' = FALSE
    /\ run' = [run EXCEPT ![s].pc = "done"]
    /\ lastEvent' = "GenDelayElapses"
    /\ UNCHANGED <<error, blueprintImage, analysisHistory>>

\* The 1500 ms pause ends: setGeneratedImage, then finally.
GenDelayElapses(s) ==
    /\ run[s].kind = "gen" /\ run[s].pc = "await_delay"
    /\ generatedImage' = run[s].currentMapUrl
    /\ isLoading' = FALSE
    /\ run' = [run EXCEPT ![s].pc = "done"]
    /\ lastEvent' = "GenDelayElapses"
    /\ UNCHANGED <<error, blueprintImage, analysisHistory>>

\* ---- manualRefine ---------------------------------------------------------
\* The synchronous part of manualRefine, up to the first await.  The callback
\* reads generatedImage, isLoading and analysisHistory of the render it was
\* created in, which is the current state when a button handler runs.
ManInvalid(err) ==
    /\ error' = err
    /\ lastEvent' = "manualRefine:invalid"
    /\ UNCHANGED <<isLoading, generatedImage, blueprintImage, analysisHistory, run>>

manualRefine(s) ==
    IF ManualRefineIgnored(generatedImage, isLoading) THEN
        /\ lastEvent' = "manualRefine:ignored"
        /\ UNCHANGED <<isLoading, error, generatedImage, blueprintImage, analysisHistory, run>>
    ELSE \E keyBlank \in BOOLEAN :
      IF keyBlank THEN ManInvalid("An API key is required for manual refinement.")
      ELSE \E clientThrows \in BOOLEAN :
        IF clientThrows THEN \E msg \in Messages : ManInvalid(parseErrorMessage(msg))
        ELSE
        LET n == Len(analysisHistory)
            hasLast == n > 0
            clears == hasLast /\ analysisHistory[n].isFinal
            oid == IF hasLast THEN analysisHistory[n].oid ELSE 0
            seen(seq) == IF clears THEN ClearFinal(seq, oid) ELSE seq
        IN /\ isLoading' = TRUE
           /\ error' = NoError
           /\ analysisHistory' = seen(analysisHistory)
           /\ run' = [t \in Slots |->
                 IF t = s
                 THEN [IdleRun EXCEPT
                         !.kind = "man", !.pc = "await_refine",
                         !.local = seen(analysisHistory),
                         !.snapshot = analysisHistory,
                         !.lastRevision = IF hasLast THEN analysisHistory[n].revision ELSE 0,
                         !.previousMapUrl = generatedImage,
                         !.calls = <<Call("refine", generatedImage, NULL)>>]
                 ELSE [run[t] EXCEPT !.local = seen(@)]]
           /\ lastEvent' = "manualRefine:start"
           /\ UNCHANGED <<generatedImage, blueprintImage>>

\* await refineGeneratedMap(...) resolves; generateDiffMap is called.
ManRefineResolves(s, img) ==
    /\ run[s].kind = "man" /\ run[s].pc = "await_refine"
    /\ run' = [run EXCEPT ![s].currentMapUrl = img,
                          ![s].pc = "await_diff",
                          ![s].calls = Append(@, Call("diff", run[s].previousMapUrl, img))]
    /\ lastEvent' = "ManRefineResolves"
    /\ UNCHANGED <<isLoading, error, generatedImage, blueprintImage, analysisHistory>>

\* Variant: the finally block is missing, isLoading stays set after a failure.
ManCatch_NoFinally(s, msg, ev) ==
    /\ error' = parseErrorMessage(msg)
    /\ run' = [run EXCEPT ![s].pc = "done", ![s].failed = TRUE]
    /\ lastEvent' = ev
    /\ UNCHANGED <<isLoading, generatedImage, blueprintImage, analysisHistory>>

\* catch + finally of manualRefine.
ManCatch(s, msg, ev) ==
    /\ error' = parseErrorMessage(msg)
    /\ isLoading' = FALSE
    /\ run' = [run EXCEPT ![s].pc = "done", ![s].failed = TRUE]
    /\ lastEvent' = ev
    /\ UNCHANGED <<generatedImage, blueprintImage, analysisHistory>>

ManRefineRejects(s, msg) ==
    /\ run[s].kind = "man" /\ run[s].pc = "await_refine"
    /\ ManCatch(s, msg, "ManRefineRejects")

\* await generateDiffMap(...) resolves; hasBlueprintLeaks is called.
ManDiffResolves(s, diffMapUrl) ==
    /\ run[s].kind = "man" /\ run[s].pc = "await_diff"
    /\ run' = [run EXCEPT ![s].aiChangeMap = diffMapUrl,
                          ![s].pc = "await_detect",
                          ![s].calls = Append(@, Call("detect", run[s].currentMapUrl, NULL))]
    /\ lastEvent' = "ManDiffResolves"
    /\ UNCHANGED <<isLoading, error, generatedImage, blueprintImage, analysisHistory>>

\* Variant: a failing analysis sends the image to the refiner again.
ManDetectResolves_Retry(s, o) ==
    /\ run[s].kind = "man" /\ run[s].pc = "await_detect"
    /\ LET res == hasBlueprintLeaks(o)
           needsRefinement == res.needsRefinement
       IN IF res.settled = "rejected"
          THEN ManCatch(s, "other", "ManDetectRejects")
          ELSE
           /\ IF needsRefinement
              THEN /\ run' = [run EXCEPT
                         ![s].outcomes = Append(@, needsRefinement),
                         ![s].previousMapUrl = run[s].currentMapUrl,
                         ![s].pc = "await_refine",
                         ![s].calls = Append(@, Call("refine", run[s].currentMapUrl, NULL))]
                   /\ UNCHANGED <<analysisHistory, generatedImage, isLoading>>
              ELSE LET rec == [oid |-> FreshOid,
                               revision |-> ManRevision(run[s].lastRevision),
                               mapImage |-> run[s].currentMapUrl,
                               aiChangeMap |-> run[s].aiChangeMap,
                               passed |-> TRUE,
                               isFinal |-> TRUE,
                               finalReason |-> "passed",
                               isManual |-> TRUE]
                       local == Append(run[s].local, rec)
                   IN /\ analysisHistory' = local
                      /\ run' = [run EXCEPT ![s].local = local,
                                            ![s].passedCheck = TRUE,
                                            ![s].outcomes = Append(@, needsRefinement),
                                            ![s].pc = "done"]
                      /\ generatedImage' = run[s].currentMapUrl
                      /\ isLoading' = FALSE
           /\ lastEvent' = IF o \in FailedAnalyses THEN "ManDetectResolves:failsafe" ELSE "ManDetectResolves"
           /\ UNCHANGED <<error, blueprintImage>>

\* The analysis resolves: the manual record is pushed, the state is set, finally.
ManDetectResolves(s, o) ==
    /\ run[s].kind = "man" /\ run[s].pc = "await_detect"
    /\ LET res == hasBlueprintLeaks(o)
           needsRefinement == res.needsRefinement
       IN IF res.settled = "rejected"
          THEN ManCatch(s, "other", "ManDetectRejects")
          ELSE
           /\ LET passedCheck == ~needsRefinement
                  rec == [oid |-> FreshOid,
                          revision |-> ManRevision(run[s].lastRevision),
                          mapImage |-> run[s].currentMapUrl,
                          aiChangeMap |-> run[s].aiChangeMap,
                          passed |-> passedCheck,
                          isFinal |-> TRUE,
                          finalReason |-> IF passedCheck THEN "passed" ELSE "limit_reached",
                          isManual |-> TRUE]
                  local == Append(run[s].local, rec)
              IN /\ analysisHistory' = local
                 /\ run' = [run EXCEPT ![s].local = local,
                                       ![s].passedCheck = passedCheck,
                                       ![s].outcomes = Append(@, needsRefinement),
                                       ![s].pc = "done"]
           /\ generatedImage' = run[s].currentMapUrl
           /\ isLoading' = FALSE
           /\ lastEvent' = IF o \in FailedAnalyses THEN "ManDetectResolves:failsafe" ELSE "ManDetectResolves"
           /\ UNCHANGED <<error, blueprintImage>>

\* ---- clearGeneration ------------------------------------------------------
clearGeneration ==
    /\ generatedImage' = NULL
    /\ blueprintImage' = NULL
    /\ error' = NoError
    /\ analysisHistory' = <<>>
    /\ lastEvent' = "clearGeneration"
    /\ run' = [s \in Slots |->
                 IF s \in InFlight THEN [run[s] EXCEPT !.superseded = TRUE] ELSE run[s]]
    /\ UNCHANGED isLoading

\* ---- the control panel ----------------------------------------------------
\* Variant: the button stays enabled while a run is in flight.
HandleGenerate_Unguarded ==
    /\ FreeSlots # {}
    /\ generateMap(FreeSlot)

\* "Generate Map" is disabled while isLoading.
HandleGenerate ==
    /\ ~isLoading
    /\ FreeSlots # {}
    /\ generateMap(FreeSlot)

\* "Manual Refinement" is disabled while isLoading or without a map, and the
\* hook checks the same condition again: the handler is let run in any state.
HandleManualRefine ==
    /\ Len(analysisHistory) < MaxHist
    /\ FreeSlots # {}
    /\ manualRefine(FreeSlot)

\* "Clear" and "Random Fill" are disabled while isLoading.
HandleClear ==
    /\ ~isLoading
    /\ clearGeneration

Next ==
    \/ HandleGenerate /\ UNCHANGED workerVars
    \/ HandleManualRefine /\ UNCHANGED workerVars
    \/ HandleClear /\ UNCHANGED workerVars
    \/ \E s \in Slots, img \in Images : GenerateResolves(s, img) /\ UNCHANGED workerVars
    \/ \E s \in Slots, msg \in Messages : GenerateRejects(s, msg) /\ UNCHANGED workerVars
    \/ \E s \in Slots, o \in AnalysisOutcomes : GenDetect0Resolves(s, o) /\ UNCHANGED workerVars
    \/ \E s \in Slots, img \in Images : GenRefineResolves(s, img) /\ UNCHANGED workerVars
    \/ \E s \in Slots, msg \in Messages : GenRefineRejects(s, msg) /\ UNCHANGED workerVars
    \/ \E s \in Slots, d \in {NULL, 1} : GenDiffResolves(s, d) /\ UNCHANGED workerVars
    \/ \E s \in Slots, o \in AnalysisOutcomes : GenDetectResolves(s, o) /\ UNCHANGED workerVars
    \/ \E s \in Slots : GenDelayElapses(s) /\ UNCHANGED workerVars
    \/ \E s \in Slots, img \in Images : ManRefineResolves(s, img) /\ UNCHANGED workerVars
    \/ \E s \in Slots, msg \in Messages : ManRefineRejects(s, msg) /\ UNCHANGED workerVars
    \/ \E s \in Slots, d \in {NULL, 1} : ManDiffResolves(s, d) /\ UNCHANGED workerVars
    \/ \E s \in Slots, o \in AnalysisOutcomes : ManDetectResolves(s, o) /\ UNCHANGED workerVars

Spec == Init /\ [][Next]_vars

\* ---- the hook with a caller that clears at any time ---------------------------
\* clearGeneration as the hook exports it: it has no guard of its own.
HookClear == clearGeneration

HookNext ==
    \/ HandleGenerate /\ UNCHANGED workerVars
    \/ HandleManualRefine /\ UNCHANGED workerVars
    \/ HookClear /\ UNCHANGED workerVars
    \/ \E s \in Slots, img \in Images : GenerateResolves(s, img) /\ UNCHANGED workerVars
    \/ \E s \in Slots, msg \in Messages : GenerateRejects(s, msg) /\ UNCHANGED workerVars
    \/ \E s \in Slots, o \in AnalysisOutcomes : GenDetect0Resolves(s, o) /\ UNCHANGED workerVars
    \/ \E s \in Slots, img \in Images : GenRefineResolves(s, img) /\ UNCHANGED workerVars
    \/ \E s \in Slots, msg \in Messages : GenRefineRejects(s, msg) /\ UNCHANGED workerVars
    \/ \E s \in Slots, d \in {NULL, 1} : GenDiffResolves(s, d) /\ UNCHANGED workerVars
    \/ \E s \in Slots, o \in AnalysisOutcomes : GenDetectResolves(s, o) /\ UNCHANGED workerVars
    \/ \E s \in Slots : GenDelayElapses(s) /\ UNCHANGED workerVars
    \/ \E s \in Slots, img \in Images : ManRefineResolves(s, img) /\ UNCHANGED workerVars
    \/ \E s \in Slots, msg \in Messages : ManRefineRejects(s, msg) /\ UNCHANGED workerVars
    \/ \E s \in Slots, d \in {NULL, 1} : ManDiffResolves(s, d) /\ UNCHANGED workerVars
    \/ \E s \in Slots, o \in AnalysisOutcomes : ManDetectResolves(s, o) /\ UNCHANGED workerVars

HookSpec == Init /\ [][HookNext]_vars

\* ---- the app when every call settles ---------------------------------------------
\* Whether a run returns does not depend on which image a call resolves with:
\* the external model returns one image here.
LiveImages == {1}

\* The continuation of the await the invocation in slot s is suspended at: the
\* call resolves or rejects, or the timer of the pause fires.
Settle(s) ==
    \/ \E img \in LiveImages : GenerateResolves(s, img) /\ UNCHANGED workerVars
    \/ \E msg \in Messages : GenerateRejects(s, msg) /\ UNCHANGED workerVars
    \/ \E o \in AnalysisOutcomes : GenDetect0Resolves(s, o) /\ UNCHANGED workerVars
    \/ \E img \in LiveImages : GenRefineResolves(s, img) /\ UNCHANGED workerVars
    \/ \E msg \in Messages : GenRefineRejects(s, msg) /\ UNCHANGED workerVars
    \/ \E d \in {NULL, 1} : GenDiffResolves(s, d) /\ UNCHANGED workerVars
    \/ \E o \in AnalysisOutcomes : GenDetectResolves(s, o) /\ UNCHANGED workerVars
    \/ GenDelayElapses(s) /\ UNCHANGED workerVars
    \/ \E img \in LiveImages : ManRefineResolves(s, img) /\ UNCHANGED workerVars
    \/ \E msg \in Messages : ManRefineRejects(s, msg) /\ UNCHANGED workerVars
    \/ \E d \in {NULL, 1} : ManDiffResolves(s, d) /\ UNCHANGED workerVars
    \/ \E o \in AnalysisOutcomes : ManDetectResolves(s, o) /\ UNCHANGED workerVars

LiveNext ==
    \/ HandleGenerate /\ UNCHANGED workerVars
    \/ HandleManualRefine /\ UNCHANGED workerVars
    \/ HandleClear /\ UNCHANGED workerVars
    \/ \E s \in Slots : Settle(s)

\* Every external call eventually resolves or rejects and the event loop runs
\* the continuation: a suspended invocation is not suspended forever.
LiveSpec == Init /\ [][LiveNext]_vars /\ \A s \in Slots : WF_vars(Settle(s))

\* ---- images ------------------------------------------------------------------
MaxDiffPixels == 3     \* generateDiff is run on images of at most this many pixels

\* Colours are <<r, g, b>>.  The palette is TERRAINS, parsed from the hex
\* strings by getBlueprintColorsRGB: hex digits are given by their values.
HexColors ==
    {<<0, 0, 15, 15, 0, 0>>,      \* grass        #00FF00
     <<15, 15, 0, 0, 15, 15>>,    \* forest       #FF00FF
     <<0, 0, 15, 15, 15, 15>>,    \* water        #00FFFF
     <<15, 15, 15, 15, 0, 0>>,    \* road         #FFFF00
     <<15, 15, 10, 5, 0, 0>>,     \* ruined_walls #FFA500
     <<15, 15, 0, 0, 0, 0>>}      \* mountains    #FF0000

getBlueprintColorsRGB ==
    {<<16 * hex[1] + hex[2], 16 * hex[3] + hex[4], 16 * hex[5] + hex[6]>> : hex \in HexColors}

Grass == <<0, 255, 0>>            \* a palette colour
NearGrass == <<0, 245, 0>>        \* squared distance 100 from the palette colour
Background == <<17, 24, 39>>      \* #111827, what rasterizeVectorsToImage fills with
Colours == {Grass, NearGrass, Background}

\* A decoded image: width, height and the pixels in row order.
ImagesOfSize(w, h) == [width : {w}, height : {h}, data : [1..(w * h) -> Colours]]
Sizes(n) == {wh \in (1..n) \X (1..n) : wh[1] * wh[2] <= n}
ImagesUpTo(n) == UNION {ImagesOfSize(wh[1], wh[2]) : wh \in Sizes(n)}

Square(x) == x * x

\* Variant: the channel differences are not squared.
colorDistanceSq_NotSquared(c1, c2) ==
    (IF c1[1] < c2[1] THEN c2[1] - c1[1] ELSE c1[1] - c2[1])
      + (IF c1[2] < c2[2] THEN c2[2] - c1[2] ELSE c1[2] - c2[2])
      + (IF c1[3] < c2[3] THEN c2[3] - c1[3] ELSE c1[3] - c2[3])

colorDistanceSq(c1, c2) ==
    Square(c1[1] - c2[1]) + Square(c1[2] - c2[2]) + Square(c1[3] - c2[3])

\* ---- generateDiff ------------------------------------------------------------
DIFF_THRESHOLD_SQ == 100
DiffThresholds == {0, DIFF_THRESHOLD_SQ}

\* What a diff call yields: null, or the image whose magenta pixels are marked.
NullDiff == [isNull |-> TRUE, marked |-> {}]
DiffImage(marked) == [isNull |-> FALSE, marked |-> marked]

\* Variant: a pixel at exactly the threshold is marked too.
Differs_Inclusive(c1, c2, threshold) == colorDistanceSq(c1, c2) >= threshold

Differs(c1, c2, threshold) == colorDistanceSq(c1, c2) > threshold

\* performDiffing: the body of the try block either throws on a dimension
\* mismatch or returns the result of the pixel loop; the catch returns null.
performDiffing(base, new, threshold) ==
    LET mismatch == base.width # new.width \/ base.height # new.height
        marked == {i \in DOMAIN base.data : Differs(base.data[i], new.data[i], threshold)}
        hasDifference == marked # {}
        try == IF mismatch
               THEN [threw |-> TRUE, value |-> NullDiff]
               ELSE [threw |-> FALSE,
                     value |-> IF ~hasDifference THEN NullDiff ELSE DiffImage(marked)]
    IN IF try.threw THEN NullDiff ELSE try.value

\* generateDiffMap: the promise has no reject; it resolves with the diffMapUrl
\* of the worker's message.
generateDiffMap(base, new, threshold) ==
    [settled |-> "resolved", diffMapUrl |-> performDiffing(base, new, threshold)]

DiffInit ==
    /\ isLoading = FALSE /\ error = NoError /\ generatedImage = NULL
    /\ blueprintImage = NULL /\ analysisHistory = <<>>
    /\ run = [s \in Slots |-> IdleRun] /\ lastEvent = "init"
    /\ workerPc = "diff_posted"
    /\ imgBase \in ImagesUpTo(MaxDiffPixels)
    /\ imgNew \in ImagesUpTo(MaxDiffPixels)
    /\ diffThresholdSq \in DiffThresholds
    /\ diffResult = [settled |-> "pending", diffMapUrl |-> NullDiff]
    /\ mapImage = NULL /\ style = NULL /\ results = <<>>
    /\ leaks = <<>> /\ visitedForFlatness = <<>> /\ visited = <<>>

\* The worker serves 'generateDiff' and the promise resolves.
GenerateDiff ==
    /\ workerPc = "diff_posted"
    /\ diffResult' = generateDiffMap(imgBase, imgNew, diffThresholdSq)
    /\ workerPc' = "diff_resolved"
    /\ UNCHANGED <<hookVars, imgBase, imgNew, diffThresholdSq, detectVars>>

DiffNext == GenerateDiff

DiffSpec == DiffInit /\ [][DiffNext]_vars

\* ---- detectLeaks -------------------------------------------------------------
MaxPixels == 6                  \* detectLeaks is run on images of at most this many pixels
MaxClusterSizeThreshold == 4    \* largest clusterSizeThreshold of a message

COLOR_MATCH_PIXEL == 400        \* 'pixel': colorMatchThresholdSq
COLOR_MATCH_PHOTO == 100        \* 'photorealistic': colorMatchThresholdSq
FLATNESS_PHOTO == 50            \* 'photorealistic': flatnessThresholdSq
SEARCH_RADIUS == 3
\* SOLIDITY_THRESHOLD = 0.75, as the fraction SOLIDITY_NUM / SOLIDITY_DEN
SOLIDITY_NUM == 3
SOLIDITY_DEN == 4

CLUSTER_SIZE_PIXEL == 1000      \* 'pixel': clusterSizeThreshold
CLUSTER_SIZE_PHOTO == 400       \* 'photorealistic': clusterSizeThreshold

\* type MapStyle
MapStyles == {"photorealistic", "pixel", "sketch"}

\* The switch of hasBlueprintLeaks: the thresholds of the message for a style.
StyleMessage(mapStyle) ==
    CASE mapStyle = "pixel" ->
           [clusterSizeThreshold |-> CLUSTER_SIZE_PIXEL,
            colorMatchThresholdSq |-> COLOR_MATCH_PIXEL,
            flatnessThresholdSq |-> NULL]
      [] OTHER ->
           [clusterSizeThreshold |-> CLUSTER_SIZE_PHOTO,
            colorMatchThresholdSq |-> COLOR_MATCH_PHOTO,
            flatnessThresholdSq |-> FLATNESS_PHOTO]

\* The thresholds of a 'detectLeaks' message.  flatnessThresholdSq is NULL
\* where the code passes undefined.
\* <<colorMatchThresholdSq, flatnessThresholdSq>>: 'pixel', 'photorealistic',
\* and both with a colour tolerance of 0.
StyleThresholds ==
    {<<COLOR_MATCH_PIXEL, NULL>>, <<COLOR_MATCH_PHOTO, FLATNESS_PHOTO>>,
     <<0, NULL>>, <<0, FLATNESS_PHOTO>>}

Styles ==
    {[clusterSizeThreshold |-> k,
      colorMatchThresholdSq |-> p[1],
      flatnessThresholdSq |-> p[2]] : k \in 1..MaxClusterSizeThreshold, p \in StyleThresholds}

Abs(x) == IF x < 0 THEN -x ELSE x

\* Pixel i (from 1, in row order) of an image of width w.
XOf(i, w) == (i - 1) % w
YOf(i, w) == (i - 1) \div w

NewUint8Array(n) == [i \in 1..n |-> 0]
SetOnes(arr, S) == [i \in DOMAIN arr |-> IF i \in S THEN 1 ELSE arr[i]]
Ones(arr) == {i \in DOMAIN arr : arr[i] = 1}

\* Top, bottom, left and right neighbours inside the image.
Neighbors4(i, w, h) ==
    {j \in 1..(w * h) : Abs(XOf(j, w) - XOf(i, w)) + Abs(YOf(j, w) - YOf(i, w)) = 1}

\* Pass 1, inner loop: the region flooded from pixel start, of unvisited pixels
\* whose colour is closer than the threshold to the colour of start.
RECURSIVE FlatRegion(_, _, _, _, _)
FlatRegion(img, start, flatnessThresholdSq, visitedSet, region) ==
    LET fresh == {j \in UNION {Neighbors4(c, img.width, img.height) : c \in region} :
                    /\ j \notin visitedSet /\ j \notin region
                    /\ colorDistanceSq(img.data[start], img.data[j]) < flatnessThresholdSq}
    IN IF fresh = {} THEN region
       ELSE FlatRegion(img, start, flatnessThresholdSq, visitedSet, region \cup fresh)

\* Pass 1, outer loop from pixel i on: the arrays after the scan.
RECURSIVE FlatScan(_, _, _, _, _)
FlatScan(img, st, i, visitedArr, leakArr) ==
    IF i > Len(img.data) THEN [visitedForFlatness |-> visitedArr, leaks |-> leakArr]
    ELSE IF visitedArr[i] = 1 THEN FlatScan(img, st, i + 1, visitedArr, leakArr)
    ELSE LET flatClusterIndices ==
                 FlatRegion(img, i, st.flatnessThresholdSq, Ones(visitedArr), {i})
         IN FlatScan(img, st, i + 1, SetOnes(visitedArr, flatClusterIndices),
                     IF Cardinality(flatClusterIndices) > st.clusterSizeThreshold
                     THEN SetOnes(leakArr, flatClusterIndices)
                     ELSE leakArr)

FlatPassEnabled(st) == st.flatnessThresholdSq # NULL /\ st.flatnessThresholdSq > 0

\* Variant: a pixel at exactly the tolerance counts as a palette match.
MatchesPalette_Inclusive(c, blueprintColorsRGB, colorMatchThresholdSq) ==
    \E blueprintColor \in blueprintColorsRGB :
        colorDistanceSq(c, blueprintColor) <= colorMatchThresholdSq

\* Pass 2, inner loop.
MatchesPalette(c, blueprintColorsRGB, colorMatchThresholdSq) ==
    \E blueprintColor \in blueprintColorsRGB :
        colorDistanceSq(c, blueprintColor) < colorMatchThresholdSq

\* Pass 2: pixels not flagged yet are flagged when they match the palette.
PaletteMatch(img, st, leakArr) ==
    [i \in DOMAIN leakArr |->
        IF leakArr[i] = 1 THEN 1
        ELSE IF MatchesPalette(img.data[i], getBlueprintColorsRGB, st.colorMatchThresholdSq)
             THEN 1 ELSE 0]

\* Points are <<x, y>>.
crossProduct(p1, p2, p3) ==
    (p2[1] - p1[1]) * (p3[2] - p1[2]) - (p2[2] - p1[2]) * (p3[1] - p1[1])

\* The comparator of the sort: by x, then by y.
PointBefore(a, b) == a[1] < b[1] \/ (a[1] = b[1] /\ a[2] < b[2])

RECURSIVE SortPoints(_)
SortPoints(S) ==
    IF S = {} THEN <<>>
    ELSE LET first == CHOOSE p \in S : \A q \in S \ {p} : PointBefore(p, q)
         IN <<first>> \o SortPoints(S \ {first})

Reverse(seq) == [k \in 1..Len(seq) |-> seq[Len(seq) + 1 - k]]
DropLast(seq) == SubSeq(seq, 1, Len(seq) - 1)

\* The while loop of buildHull: pop while the turn is not counter-clockwise.
RECURSIVE PopWhile(_, _)
PopWhile(hull, point) ==
    IF Len(hull) >= 2 /\ crossProduct(hull[Len(hull) - 1], hull[Len(hull)], point) <= 0
    THEN PopWhile(DropLast(hull), point)
    ELSE hull

RECURSIVE buildHull(_, _, _)
buildHull(points, k, hull) ==
    IF k > Len(points) THEN hull
    ELSE buildHull(points, k + 1, Append(PopWhile(hull, points[k]), points[k]))

getConvexHull(points) ==
    IF Cardinality(points) <= 2 THEN SortPoints(points)
    ELSE LET sortedPoints == SortPoints(points)
             lowerHull == buildHull(sortedPoints, 1, <<>>)
             upperHull == buildHull(Reverse(sortedPoints), 1, <<>>)
         IN DropLast(lowerHull) \o DropLast(upperHull)

\* The sum of the shoelace loop for i = 1..k (j is the vertex before i).
RECURSIVE ShoelaceSum(_, _)
ShoelaceSum(points, k) ==
    IF k = 0 THEN 0
    ELSE LET j == IF k = 1 THEN Len(points) ELSE k - 1
         IN ShoelaceSum(points, k - 1)
              + (points[j][1] + points[k][1]) * (points[j][2] - points[k][2])

\* polygonArea returns Math.abs(area / 2.0); this is twice that value.
polygonAreaTwice(points) == Abs(ShoelaceSum(points, Len(points)))

\* Variant: the ratio is taken the other way round, hullArea / clusterSize.
Solid_Inverted(clusterSize, hullAreaTwice) ==
    SOLIDITY_DEN * hullAreaTwice > 2 * clusterSize * SOLIDITY_NUM

\* solidity = clusterSize / hullArea > SOLIDITY_THRESHOLD, in integers.
Solid(clusterSize, hullAreaTwice) ==
    2 * clusterSize * SOLIDITY_DEN > SOLIDITY_NUM * hullAreaTwice

PointsOf(cluster, w) == {<<XOf(i, w), YOf(i, w)>> : i \in cluster}

\* Variant: the solidity is computed for every cluster above the size threshold.
SolidityComputed_Unguarded(cluster, w, clusterSizeThreshold) ==
    Cardinality(cluster) > clusterSizeThreshold

\* The guards around the division clusterSize / hullArea.
SolidityComputed(cluster, w, clusterSizeThreshold) ==
    /\ Cardinality(cluster) > clusterSizeThreshold
    /\ LET hull == getConvexHull(PointsOf(cluster, w))
       IN /\ Len(hull) > 2
          /\ polygonAreaTwice(hull) > 0

\* The test made on one cluster.
IsBlob(cluster, w, clusterSizeThreshold) ==
    /\ SolidityComputed(cluster, w, clusterSizeThreshold)
    /\ Solid(Cardinality(cluster), polygonAreaTwice(getConvexHull(PointsOf(cluster, w))))

\* Variant: only the eight adjacent pixels are looked at.
Window_Adjacent(i, w, h) ==
    {j \in 1..(w * h) : /\ j # i
                        /\ Abs(XOf(j, w) - XOf(i, w)) <= 1
                        /\ Abs(YOf(j, w) - YOf(i, w)) <= 1}

\* The pixels within searchRadius of pixel i in both directions.
Window(i, w, h) ==
    {j \in 1..(w * h) : /\ j # i
                        /\ Abs(XOf(j, w) - XOf(i, w)) <= SEARCH_RADIUS
                        /\ Abs(YOf(j, w) - YOf(i, w)) <= SEARCH_RADIUS}

\* Pass 4, inner loop: the cluster flooded from its first pixel.
RECURSIVE GrowCluster(_, _, _, _, _)
GrowCluster(w, h, leakArr, visitedArr, cluster) ==
    LET fresh == {j \in UNION {Window(c, w, h) : c \in cluster} :
                    leakArr[j] = 1 /\ visitedArr[j] = 0 /\ j \notin cluster}
    IN IF fresh = {} THEN cluster
       ELSE GrowCluster(w, h, leakArr, visitedArr, cluster \cup fresh)

\* Pass 4, outer loop from pixel i on; it stops at the first blob.
RECURSIVE ClusterScan(_, _, _, _, _)
ClusterScan(img, st, leakArr, i, visitedArr) ==
    IF i > Len(leakArr) THEN [needsRefinement |-> FALSE, visited |-> visitedArr]
    ELSE IF leakArr[i] = 1 /\ visitedArr[i] = 0
    THEN LET cluster == GrowCluster(img.width, img.height, leakArr, visitedArr, {i})
             seen == SetOnes(visitedArr, cluster)
         IN IF IsBlob(cluster, img.width, st.clusterSizeThreshold)
            THEN [needsRefinement |-> TRUE, visited |-> seen]
            ELSE ClusterScan(img, st, leakArr, i + 1, seen)
    ELSE ClusterScan(img, st, leakArr, i + 1, visitedArr)

\* Variant: the analysis is skipped up to twice the threshold.
FastPath_TooEager(totalLeakedPixels, clusterSizeThreshold) ==
    totalLeakedPixels < 2 * clusterSizeThreshold

\* The optimisation before pass 4.
FastPath(totalLeakedPixels, clusterSizeThreshold) ==
    totalLeakedPixels < clusterSizeThreshold

\* Variant: the visited array of the previous call is used again.
NewVisited_Stale(n) == IF Len(visited) = n THEN visited ELSE NewUint8Array(n)

\* const visited = new Uint8Array(width * height)
NewVisited(n) == NewUint8Array(n)

\* Variant: the size threshold is ignored, every cluster is shape-tested.
ClusterAnalysis_NoSizeThreshold(img, st, leakArr) ==
    ClusterScan(img, [st EXCEPT !.clusterSizeThreshold = 0], leakArr, 1,
                NewVisited(Len(leakArr)))

\* Passes 3 and 4 on the finished leak array.
ClusterAnalysis(img, st, leakArr) ==
    LET totalLeakedPixels == Cardinality(Ones(leakArr))
    IN IF FastPath(totalLeakedPixels, st.clusterSizeThreshold)
       THEN [needsRefinement |-> FALSE, visited |-> visited]
       ELSE ClusterScan(img, st, leakArr, 1, NewVisited(Len(leakArr)))

DetectInit ==
    /\ isLoading = FALSE /\ error = NoError /\ generatedImage = NULL
    /\ blueprintImage = NULL /\ analysisHistory = <<>>
    /\ run = [s \in Slots |-> IdleRun] /\ lastEvent = "init"
    /\ workerPc = "detect_posted"
    /\ imgBase = NULL /\ imgNew = NULL /\ diffThresholdSq = 0 /\ diffResult = NULL
    /\ mapImage \in ImagesUpTo(MaxPixels)
    /\ style \in Styles
    /\ leaks = <<>> /\ visitedForFlatness = <<>> /\ visited = <<>>
    /\ results = <<>>

\* The image is decoded, leaks is allocated, pass 1 runs when it is enabled.
FlatPatchPass ==
    /\ workerPc = "detect_posted"
    /\ LET n == Len(mapImage.data)
       IN IF FlatPassEnabled(style)
          THEN LET r == FlatScan(mapImage, style, 1, NewUint8Array(n), NewUint8Array(n))
               IN leaks' = r.leaks /\ visitedForFlatness' = r.visitedForFlatness
          ELSE leaks' = NewUint8Array(n) /\ UNCHANGED visitedForFlatness
    /\ workerPc' = "flat_done"
    /\ UNCHANGED <<hookVars, diffVars, mapImage, style, visited, results>>

PaletteMatchPass ==
    /\ workerPc = "flat_done"
    /\ leaks' = PaletteMatch(mapImage, style, leaks)
    /\ workerPc' = "palette_done"
    /\ UNCHANGED <<hookVars, diffVars, mapImage, style, visitedForFlatness, visited, results>>

\* Passes 3 and 4; the worker posts the result and the promise resolves.
ClusterPass ==
    /\ workerPc = "palette_done"
    /\ LET r == ClusterAnalysis(mapImage, style, leaks)
       IN /\ visited' = r.visited
          /\ results' = Append(results, [needsRefinement |-> r.needsRefinement,
                                         leakMapUrl |-> Ones(leaks)])
    /\ workerPc' = "detect_resolved"
    /\ UNCHANGED <<hookVars, diffVars, mapImage, style, leaks, visitedForFlatness>>

\* hasBlueprintLeaks is called a second time with the same image and style.
DetectAgain ==
    /\ workerPc = "detect_resolved"
    /\ Len(results) = 1
    /\ workerPc' = "detect_posted"
    /\ UNCHANGED <<hookVars, diffVars, detectVars>>

DetectNext ==
    \/ FlatPatchPass
    \/ PaletteMatchPass
    \/ ClusterPass
    \/ DetectAgain

DetectSpec == DetectInit /\ [][DetectNext]_vars

\* ---- detectLeaks on leak masks ---------------------------------------------------
MaxMaskPixels == 12     \* the masks have at most this many pixels

\* The 'pixel' message has no flat-patch pass and a tolerance that a palette
\* colour is inside of and the background is outside of: an image of these two
\* colours yields the leak mask of its palette-coloured pixels, so every mask
\* is the mask of some image.
MaskColours == {Grass, Background}
MaskImagesOfSize(w, h) == [width : {w}, height : {h}, data : [1..(w * h) -> MaskColours]]
\* The masks are at least as wide as they are high.
MaskSizes(n) == {wh \in Sizes(n) : wh[1] >= wh[2]}
MaskImagesUpTo(n) == UNION {MaskImagesOfSize(wh[1], wh[2]) : wh \in MaskSizes(n)}

MaskStyles ==
    {[clusterSizeThreshold |-> k,
      colorMatchThresholdSq |-> COLOR_MATCH_PIXEL,
      flatnessThresholdSq |-> NULL] : k \in 1..MaxClusterSizeThreshold}

\* The worker has run pass 1 (skipped) and pass 2 on the image.
MaskInit ==
    /\ isLoading = FALSE /\ error = NoError /\ generatedImage = NULL
    /\ blueprintImage = NULL /\ analysisHistory = <<>>
    /\ run = [s \in Slots |-> IdleRun] /\ lastEvent = "init"
    /\ workerPc = "palette_done"
    /\ imgBase = NULL /\ imgNew = NULL /\ diffThresholdSq = 0 /\ diffResult = NULL
    /\ mapImage \in MaskImagesUpTo(MaxMaskPixels)
    /\ style \in MaskStyles
    /\ leaks = PaletteMatch(mapImage, style, NewUint8Array(Len(mapImage.data)))
    /\ visitedForFlatness = <<>> /\ visited = <<>>
    /\ results = <<>>

MaskNext == ClusterPass

MaskSpec == MaskInit /\ [][MaskNext]_vars

\* ---- properties ------------------------------------------------------------
Last(seq) == seq[Len(seq)]
ManDetectEvents == {"ManDetectResolves", "ManDetectResolves:failsafe"}
Ops(calls) == [i \in DOMAIN calls |-> calls[i].op]
CountOp(calls, op) == Cardinality({i \in DOMAIN calls : calls[i].op = op})

\* The invocation that ran last, when it has returned without a failure.
CompletedOk(s) == run[s].pc = "done" /\ ~run[s].failed

\* C1: the record at position i of the revision history has revision = i, in
\* every reachable state: revisions start at 1 and grow by exactly 1.
C1_RevisionsConsecutive ==
    \A i \in DOMAIN analysisHistory : analysisHistory[i].revision = i

\* A history of three records, the last two appended by manualRefine.
C1_Witness ==
    /\ Len(analysisHistory) = 3
    /\ analysisHistory[2].isManual /\ analysisHistory[3].isManual
    /\ ~analysisHistory[1].isManual

\* C2: when a generateMap or manualRefine run has completed without a failure
\* (loading is false and a final image is set), exactly one record is final
\* and it is the last one; every earlier record has isFinal = false and
\* finalReason = null.
C2_OneFinalRecord ==
    \A s \in Slots :
        (CompletedOk(s) /\ ~isLoading /\ generatedImage # NULL) =>
            /\ Len(analysisHistory) >= 1
            /\ Last(analysisHistory).isFinal
            /\ \A i \in 1..(Len(analysisHistory) - 1) :
                   /\ ~analysisHistory[i].isFinal
                   /\ analysisHistory[i].finalReason = NoReason

\* A generateMap run with two refinements has completed.
C2_Witness ==
    \E s \in Slots :
        /\ CompletedOk(s) /\ run[s].kind = "gen" /\ ~isLoading /\ generatedImage # NULL
        /\ Len(analysisHistory) = 3

\* C3: finalReason 'passed' goes with passed = true, 'limit_reached' with
\* passed = false, and finalReason is null exactly when isFinal is false.
C3_FinalReasonConsistent ==
    \A i \in DOMAIN analysisHistory :
        LET r == analysisHistory[i]
        IN /\ r.finalReason = "passed" => r.passed
           /\ r.finalReason = "limit_reached" => ~r.passed
           /\ (r.finalReason = NoReason) <=> ~r.isFinal

\* A history with a cleared record, a manual record that passed and a
\* generated record that ran into the limit.
C3_Witness ==
    /\ Len(analysisHistory) >= 2
    /\ \E i \in DOMAIN analysisHistory :
           analysisHistory[i].isManual /\ analysisHistory[i].finalReason = "passed"
    /\ \E i \in DOMAIN analysisHistory :
           ~analysisHistory[i].isManual /\ ~analysisHistory[i].isFinal
             /\ ~analysisHistory[i].passed
    /\ \E s \in Slots : run[s].kind = "man" /\ Len(run[s].snapshot) >= 1
           /\ Last(run[s].snapshot).finalReason = "limit_reached"

\* C4: in one generateMap run with maxRefinements = N the refiner is called at
\* most N times, never after an analysis that returned needsRefinement =
\* false, and the history never holds more than N + 1 records of that run.
C4_RefinerBudget ==
    \A s \in Slots :
        run[s].kind = "gen" =>
            /\ CountOp(run[s].calls, "refine") <= run[s].maxRefinements
            /\ \A i \in DOMAIN run[s].outcomes :
                   ~run[s].outcomes[i] => CountOp(run[s].calls, "refine") <= i - 1
            /\ Len(run[s].local) <= run[s].maxRefinements + 1
            /\ run[s].pc # "done" => Len(analysisHistory) <= run[s].maxRefinements + 1

\* A run with N = 2 used both refinements and its last analysis failed too.
C4_Witness ==
    \E s \in Slots :
        /\ run[s].kind = "gen" /\ run[s].maxRefinements = 2
        /\ CountOp(run[s].calls, "refine") = 2
        /\ run[s].outcomes = <<TRUE, TRUE, TRUE>>

\* The position of the first passing analysis, 0 when every analysis failed.
FirstPass(outcomes) ==
    IF \E k \in DOMAIN outcomes : ~outcomes[k]
    THEN CHOOSE k \in DOMAIN outcomes :
             ~outcomes[k] /\ \A j \in 1..(k - 1) : outcomes[j]
    ELSE 0

OnlyLastFinal(h) ==
    /\ Len(h) >= 1
    /\ Last(h).isFinal
    /\ \A i \in 1..(Len(h) - 1) : ~h[i].isFinal

\* C5: a generateMap run without a failure ends, when its k-th analysis is the
\* first that passes, with exactly k records of which only the k-th is final,
\* with finalReason 'passed'; when all N + 1 analyses fail, with exactly N + 1
\* records of which only the last is final, with finalReason 'limit_reached'.
C5_RunOutcome ==
    \A s \in Slots :
        (run[s].kind = "gen" /\ CompletedOk(s) /\ lastEvent = "GenDelayElapses") =>
            LET o == run[s].outcomes
                k == FirstPass(o)
                h == analysisHistory
            IN /\ OnlyLastFinal(h)
               /\ IF k # 0
                  THEN /\ k <= run[s].maxRefinements + 1
                       /\ Len(h) = k
                       /\ h[k].finalReason = "passed"
                  ELSE /\ Len(o) = run[s].maxRefinements + 1
                       /\ Len(h) = run[s].maxRefinements + 1
                       /\ Last(h).finalReason = "limit_reached"

\* maxRefinements = 2 and the analyses fail, fail, pass.
C5_Witness ==
    \E s \in Slots :
        /\ run[s].kind = "gen" /\ CompletedOk(s) /\ lastEvent = "GenDelayElapses"
        /\ run[s].maxRefinements = 2
        /\ run[s].outcomes = <<TRUE, TRUE, FALSE>>
        /\ Len(analysisHistory) = 3

\* C6: from a completed run with N records whose last record is final, a
\* manualRefine that completes without a failure leaves N + 1 records; the
\* former last record has isFinal = false and finalReason = null, the new last
\* record has isFinal = true and isManual = true, passed or not.
C6_ManualAppendsOne ==
    \A s \in Slots :
        (run[s].kind = "man" /\ CompletedOk(s) /\ lastEvent \in ManDetectEvents
           /\ Len(run[s].snapshot) >= 1 /\ Last(run[s].snapshot).isFinal) =>
            LET n == Len(run[s].snapshot)
                h == analysisHistory
            IN /\ Len(h) = n + 1
               /\ ~h[n].isFinal /\ h[n].finalReason = NoReason
               /\ h[n + 1].isFinal /\ h[n + 1].isManual

\* A manual refinement of a run that hit the limit, whose analysis fails again.
C6_Witness ==
    \E s \in Slots :
        /\ run[s].kind = "man" /\ CompletedOk(s) /\ lastEvent \in ManDetectEvents
        /\ Len(run[s].snapshot) = 2
        /\ Last(run[s].snapshot).finalReason = "limit_reached"
        /\ ~Last(analysisHistory).passed

ManualRefineEvents == {"manualRefine:ignored", "manualRefine:invalid", "manualRefine:start"}

\* C7: manualRefine invoked without a final image or while a run is in flight
\* makes no external call and leaves the history, the final image, the error
\* and the loading flag unchanged.
C7_ManualRefineGuard ==
    [][(lastEvent' \in ManualRefineEvents /\ (generatedImage = NULL \/ isLoading)) =>
          UNCHANGED <<analysisHistory, generatedImage, error, isLoading, run>>]_vars

\* manualRefine was invoked while a manual refinement was in flight.
C7_Witness ==
    /\ lastEvent = "manualRefine:ignored"
    /\ isLoading /\ generatedImage # NULL
    /\ \E s \in Slots : run[s].kind = "man" /\ run[s].pc = "await_refine"

IsPrefix(p, q) == Len(p) <= Len(q) /\ \A i \in DOMAIN p : p[i] = q[i]

\* C8: one manualRefine invocation issues one refiner call, then one diff
\* call, then one detection call, and no call after that, also when the
\* detection returns needsRefinement = true.
C8_ManualCallSequence ==
    \A s \in Slots :
        run[s].kind = "man" =>
            /\ IsPrefix(Ops(run[s].calls), <<"refine", "diff", "detect">>)
            /\ Len(run[s].calls) >= 1
            /\ CompletedOk(s) => Len(run[s].calls) = 3
            /\ Len(run[s].calls) >= 2 =>
                   /\ run[s].calls[2].a = run[s].calls[1].a
                   /\ run[s].calls[2].b = run[s].currentMapUrl

\* A manual refinement after a run that passed on its first refinement; the
\* analysis of the manual refinement fails.
C8_Witness ==
    \E s \in Slots :
        /\ run[s].kind = "man" /\ CompletedOk(s)
        /\ run[s].outcomes = <<TRUE>>
        /\ Len(run[s].snapshot) = 2 /\ ~run[s].snapshot[2].isManual
        /\ run[s].snapshot[2].finalReason = "passed"

\* C9: when the generator or a refiner call fails during generateMap, the run
\* makes no further external call, the error is non-null, loading is false
\* and the history is exactly the records appended before the failure.
C9_FailureKeepsHistory ==
    \A s \in Slots :
        (run[s].kind = "gen" /\ run[s].failed) =>
            /\ run[s].pc = "done"
            /\ Last(run[s].calls).op \in {"generate", "refine"}
            /\ Len(run[s].local) = Len(run[s].outcomes)
            /\ lastEvent \in {"GenerateRejects", "GenRefineRejects"} =>
                   /\ analysisHistory = run[s].local
                   /\ error # NoError
                   /\ ~isLoading

\* The second refiner call of a run failed; two records had been appended.
C9_Witness ==
    \E s \in Slots :
        /\ run[s].kind = "gen" /\ run[s].failed
        /\ lastEvent = "GenRefineRejects"
        /\ Len(analysisHistory) = 2

\* C10: when the refiner call of manualRefine fails, every record of the
\* history has the field values it had before the call, the final flag and
\* the finalReason of the last record included.
C10_FailedManualKeepsHistory ==
    \A s \in Slots :
        (run[s].kind = "man" /\ run[s].failed /\ lastEvent = "ManRefineRejects") =>
            analysisHistory = run[s].snapshot

\* ---- the analysis fails safe ------------------------------------------------
FailsafeEvents ==
    {"GenDetect0Resolves:failsafe", "GenDetectResolves:failsafe", "ManDetectResolves:failsafe"}

\* C11: an analysis that cannot complete (the image does not decode, the
\* analysis throws, the worker raises an error event) resolves with
\* needsRefinement = false and never rejects; the controller logs that revision
\* with passed = true, final with finalReason "passed", and the run issues no
\* refiner call after it.
C11_FailedAnalysisPasses ==
    /\ \A o \in FailedAnalyses :
          hasBlueprintLeaks(o) = [settled |-> "resolved", needsRefinement |-> FALSE]
    /\ lastEvent \in FailsafeEvents =>
          /\ analysisHistory # <<>>
          /\ Last(analysisHistory).passed
          /\ Last(analysisHistory).isFinal
          /\ Last(analysisHistory).finalReason = "passed"
          /\ \A s \in Slots : run[s].pc # "await_refine"
          /\ \E s \in Slots :
                /\ ~run[s].failed
                /\ run[s].pc \in {"await_delay", "done"}
                /\ Last(run[s].calls).op = "detect"
                /\ run[s].local = analysisHistory

\* The analysis of a refined map fails to complete after the first revision
\* was found leaking, with refinements left in the budget.
C11_Witness ==
    /\ lastEvent = "GenDetectResolves:failsafe"
    /\ Len(analysisHistory) = 2
    /\ ~analysisHistory[1].passed
    /\ \E s \in Slots : run[s].pc = "await_delay" /\ run[s].refinementCount < run[s].maxRefinements

\* ---- the diff map ----------------------------------------------------------
DimensionsDiffer(a, b) == a.width # b.width \/ a.height # b.height

\* C12: diffing two bitmaps whose width or height differ fails in a way the
\* caller of generateDiffMap can observe: the promise rejects, or resolves with
\* something other than the null that means "no visible change".
C12_MismatchObservable ==
    (workerPc = "diff_resolved" /\ DimensionsDiffer(imgBase, imgNew)) =>
        \/ diffResult.settled = "rejected"
        \/ ~diffResult.diffMapUrl.isNull

\* C13: for two bitmaps of the same size the diff is null exactly when no pixel
\* has a squared RGB distance strictly greater than the threshold; a bitmap
\* diffed with itself gives null; a non-null diff marks exactly the pixels whose
\* squared distance exceeds the threshold.
C13_DiffMarksExceeding ==
    (workerPc = "diff_resolved" /\ ~DimensionsDiffer(imgBase, imgNew)) =>
        LET exceeding == {i \in DOMAIN imgBase.data :
                            colorDistanceSq(imgBase.data[i], imgNew.data[i]) > diffThresholdSq}
            url == diffResult.diffMapUrl
        IN /\ diffResult.settled = "resolved"
           /\ url.isNull <=> exceeding = {}
           /\ ~url.isNull => url.marked = exceeding
           /\ imgBase = imgNew => url.isNull

\* Two 3-pixel images: one pixel pair differs by exactly the threshold and is
\* left unmarked, one pair is equal, one pair exceeds the threshold.
C13_Witness ==
    /\ workerPc = "diff_resolved"
    /\ imgBase.width = 3 /\ imgNew.width = 3
    /\ diffThresholdSq = DIFF_THRESHOLD_SQ
    /\ Cardinality(diffResult.diffMapUrl.marked) = 1
    /\ \E i \in DOMAIN imgBase.data :
          colorDistanceSq(imgBase.data[i], imgNew.data[i]) = diffThresholdSq
    /\ \E i \in DOMAIN imgBase.data : imgBase.data[i] = imgNew.data[i]

\* ---- leak detection ----------------------------------------------------------
Resolved == workerPc = "detect_resolved"
LeakSet == Ones(leaks)

\* Every pixel has one and the same palette colour.
FilledWithPaletteColour(img) ==
    \E c \in getBlueprintColorsRGB : \A i \in DOMAIN img.data : img.data[i] = c

\* C14 as stated: a bitmap filled with one palette colour whose pixel count
\* exceeds the cluster size threshold needs refinement, for every tolerance
\* (0 included) and every size (1 pixel wide or high included).
C14_FilledPaletteBitmap ==
    (Resolved /\ FilledWithPaletteColour(mapImage)
       /\ Len(mapImage.data) > style.clusterSizeThreshold) =>
        Last(results).needsRefinement

\* C14 amended: such a bitmap needs refinement when it is at least 2 pixels
\* wide and 2 pixels high and either the colour tolerance is positive or the
\* flat-patch pass is enabled.
C14_FilledPaletteBitmapAmended ==
    (Resolved /\ FilledWithPaletteColour(mapImage)
       /\ Len(mapImage.data) > style.clusterSizeThreshold
       /\ mapImage.width >= 2 /\ mapImage.height >= 2
       /\ (style.colorMatchThresholdSq > 0 \/ FlatPassEnabled(style))) =>
        Last(results).needsRefinement

\* A 2x3 bitmap of the palette colour at tolerance 0: the palette pass matches
\* nothing, the flat-patch pass flags all six pixels.
C14_Witness ==
    /\ Resolved /\ FilledWithPaletteColour(mapImage)
    /\ mapImage.width = 2 /\ mapImage.height = 3
    /\ style.colorMatchThresholdSq = 0 /\ FlatPassEnabled(style)
    /\ style.clusterSizeThreshold = 4
    /\ Last(results).needsRefinement

\* C15: when the leak mask has fewer leak pixels than the cluster size
\* threshold, the detection resolves with needsRefinement = false.
C15_FewLeaksPass ==
    (Resolved /\ Cardinality(LeakSet) < style.clusterSizeThreshold) =>
        ~Last(results).needsRefinement

\* Three leak pixels that are not on one line, under a threshold of 4.
C15_Witness ==
    /\ Resolved /\ style.clusterSizeThreshold = 4
    /\ Cardinality(LeakSet) = 3
    /\ Len(getConvexHull(PointsOf(LeakSet, mapImage.width))) = 3
    /\ ~Last(results).needsRefinement

\* ---- shapes of the leak mask --------------------------------------------------
\* A run of pixels next to each other in one row or in one column.
StraightRun(S, w) ==
    /\ S # {}
    /\ \/ /\ \A i, j \in S : YOf(i, w) = YOf(j, w)
          /\ \E a, b \in 0..(w - 1) : {XOf(i, w) : i \in S} = a..b
       \/ /\ \A i, j \in S : XOf(i, w) = XOf(j, w)
          /\ \E a, b \in 0..Len(leaks) : {YOf(i, w) : i \in S} = a..b

\* A run of pixels along a diagonal, each one step right and one step up or
\* down from the one before.
DiagonalRun(S, w) ==
    /\ Cardinality(S) >= 2
    /\ \E first \in S, d \in {-1, 1} :
          {<<XOf(i, w), YOf(i, w)>> : i \in S}
            = {<<XOf(first, w) + k, YOf(first, w) + d * k>> : k \in 0..(Cardinality(S) - 1)}

\* A row run and a column run that meet in an end pixel of both.
BentRun(S, w) ==
    /\ Cardinality(S) >= 4
    /\ \E corner \in S :
          LET row == {i \in S : YOf(i, w) = YOf(corner, w)}
              col == {i \in S : XOf(i, w) = XOf(corner, w)}
          IN /\ row \cup col = S
             /\ Cardinality(row) >= 2 /\ Cardinality(col) >= 2
             /\ StraightRun(row, w) /\ StraightRun(col, w)
             /\ \/ \A i \in row : XOf(i, w) >= XOf(corner, w)
                \/ \A i \in row : XOf(i, w) <= XOf(corner, w)
             /\ \/ \A i \in col : YOf(i, w) >= YOf(corner, w)
                \/ \A i \in col : YOf(i, w) <= YOf(corner, w)

Streak(S, w) == StraightRun(S, w) \/ DiagonalRun(S, w) \/ BentRun(S, w)

\* A filled block at least 2 pixels wide and 2 pixels high.
FilledBlock(S, w) ==
    \E i, j \in S :
        /\ XOf(i, w) < XOf(j, w) /\ YOf(i, w) < YOf(j, w)
        /\ S = {k \in DOMAIN leaks : /\ XOf(k, w) \in XOf(i, w)..XOf(j, w)
                                      /\ YOf(k, w) \in YOf(i, w)..YOf(j, w)}

\* C16 as stated: a 1-pixel-wide streak of leak pixels (straight, diagonal or
\* bent) with more pixels than the cluster size threshold does not make the
\* detection resolve with needsRefinement = true, while a filled blob with
\* more pixels than the threshold does.
C16_StreakIsNoBlob ==
    (Resolved /\ Cardinality(LeakSet) > style.clusterSizeThreshold) =>
        /\ Streak(LeakSet, mapImage.width) => ~Last(results).needsRefinement
        /\ FilledBlock(LeakSet, mapImage.width) => Last(results).needsRefinement

\* ---- the background colour ----------------------------------------------------
WorkerStates == {"flat_done", "palette_done", "detect_resolved"}
BackgroundPixels == {i \in DOMAIN mapImage.data : mapImage.data[i] = Background}

\* C17 as stated: no pixel of the blueprint background colour is set in the
\* leak mask, neither by the flat-patch pass nor by the palette pass.
C17_BackgroundNeverLeak ==
    workerPc \in WorkerStates => \A i \in BackgroundPixels : leaks[i] = 0

\* The 4-connected region of pixels of exactly the colour of pixel i.
SameColourRegion(i) == FlatRegion(mapImage, i, 1, {}, {i})

\* C17 amended: the palette pass never sets a background-coloured pixel, under
\* any of the tolerances; a background-coloured pixel is in the leak mask only
\* when the flat-patch pass is enabled and the pixel lies in a region of that
\* colour with more pixels than the cluster size threshold.
C17_BackgroundOnlyFlatPatch ==
    workerPc \in WorkerStates =>
        \A i \in BackgroundPixels :
            leaks[i] = 1 =>
                /\ FlatPassEnabled(style)
                /\ Cardinality(SameColourRegion(i)) > style.clusterSizeThreshold

\* After the palette pass with the widest tolerance and no flat-patch pass: the
\* palette-coloured pixels are flagged, the four background pixels are not.
C17_Witness ==
    /\ workerPc = "palette_done"
    /\ ~FlatPassEnabled(style) /\ style.colorMatchThresholdSq = COLOR_MATCH_PIXEL
    /\ style.clusterSizeThreshold = 1
    /\ Cardinality(BackgroundPixels) = 4
    /\ Cardinality(LeakSet) = 2
    /\ \A i \in BackgroundPixels : leaks[i] = 0

\* ---- repeated detection -------------------------------------------------------
\* C18: detection run again on the same bitmap with the same style resolves
\* with the same leak mask and the same needsRefinement.
C18_SameResultAgain ==
    \A i, j \in DOMAIN results : results[i] = results[j]

\* The second call has resolved, with needsRefinement = true, on a mask that
\* both passes contributed to.
C18_Witness ==
    /\ Resolved /\ Len(results) = 2
    /\ results[2].needsRefinement
    /\ FlatPassEnabled(style)
    /\ \E i \in LeakSet : mapImage.data[i] = Background
    /\ \E i \in LeakSet : mapImage.data[i] = Grass

\* ---- one run at a time --------------------------------------------------------
\* C19: at most one generateMap or manualRefine run is in flight at any time,
\* and isLoading is true exactly while one is: a handler invoked during a run
\* starts no second run.
C19_OneRunInFlight ==
    /\ Cardinality(InFlight) <= 1
    /\ isLoading <=> InFlight # {}

\* manualRefine was invoked while a run was suspended, and was ignored.
C19_Witness ==
    /\ lastEvent = "manualRefine:ignored"
    /\ isLoading
    /\ \E s \in Slots : InFlight = {s} /\ run[s].pc = "await_refine"

\* C20: once clearGeneration was called while a run was in flight, the calls of
\* that run that resolve afterwards leave the history empty and the final
\* image null.
C20_ClearIsLasting ==
    \A s \in InFlight :
        run[s].superseded => (analysisHistory = <<>> /\ generatedImage = NULL)

\* C21: when every external call eventually resolves or rejects, every started
\* generateMap or manualRefine run eventually reaches a state where it has
\* returned with loading = false and a final image or an error set.
C21_RunsTerminate ==
    (InFlight # {}) ~> (/\ ~isLoading
                        /\ InFlight = {}
                        /\ (generatedImage # NULL \/ error # NoError))

\* A manualRefine run has returned in the step in which its analysis failed:
\* loading is false and the refined image is the final image.
C21_Witness ==
    /\ lastEvent = "ManDetectResolves:failsafe"
    /\ ~isLoading /\ InFlight = {}
    /\ generatedImage # NULL /\ error = NoError

\* The errors set for an empty drawing and for a blank API key.
InvalidInputErrors ==
    {"Please draw something on the blueprint", "An API key is required"}

\* C22: generateMap called with an empty drawing or with a blank API key sets
\* a non-null error in that step, issues no external call, does not set loading
\* to true, and leaves the history and the final image as they were.
C22_InvalidInput ==
    [][(lastEvent' = "generateMap:invalid" /\ error' \in InvalidInputErrors) =>
         /\ error' # NoError
         /\ ~isLoading'
         /\ run' = run
         /\ analysisHistory' = analysisHistory
         /\ generatedImage' = generatedImage]_vars

\* generateMap was refused for an empty drawing while the history and the final
\* image of an earlier run are on display.
C22_Witness ==
    /\ lastEvent = "generateMap:invalid"
    /\ error = "Please draw something on the blueprint"
    /\ Len(analysisHistory) >= 2 /\ generatedImage # NULL
    /\ ~isLoading /\ InFlight = {}

\* generate, detect, then (refine, diff, detect) repeated: the call at position i.
PatternOp(i) ==
    IF i = 1 THEN "generate"
    ELSE IF i = 2 THEN "detect"
    ELSE CASE (i - 3) % 3 = 0 -> "refine"
           [] (i - 3) % 3 = 1 -> "diff"
           [] OTHER           -> "detect"

\* The call an invocation is suspended at.
AwaitedOp(pc) ==
    CASE pc = "await_generate" -> "generate"
      [] pc = "await_refine"   -> "refine"
      [] pc = "await_diff"     -> "diff"
      [] pc \in {"await_detect0", "await_detect"} -> "detect"
      [] OTHER -> "none"

\* The analyses of an invocation that have completed.
CompletedDetects(r) ==
    CountOp(r.calls, "detect") - (IF AwaitedOp(r.pc) = "detect" THEN 1 ELSE 0)

\* C23: the external calls of a generateMap run are generate, detect, then
\* (refine, diff, detect) repeated; only the call issued last can be outstanding;
\* the run holds k records once its k-th analysis has completed, and the k-th
\* refiner call is issued only then, with the image of the k-th record, which
\* is the image the preceding generate or refine call produced.
C23_CallOrder ==
    \A s \in Slots :
        run[s].kind = "gen" =>
            LET r == run[s]
                refines == {i \in DOMAIN r.calls : r.calls[i].op = "refine"}
            IN /\ \A i \in DOMAIN r.calls : r.calls[i].op = PatternOp(i)
               /\ AwaitedOp(r.pc) # "none" => Last(r.calls).op = AwaitedOp(r.pc)
               /\ Len(r.local) = CompletedDetects(r)
               /\ \A i \in refines :
                      LET k == i \div 3
                      IN /\ Len(r.local) >= k
                         /\ r.calls[i].a = r.local[k].mapImage
                         /\ r.calls[i].a = r.calls[i - 1].a

\* A generateMap run issued its second refiner call, and the two images it has
\* produced so far differ.
C23_Witness ==
    \E s \in Slots :
        /\ run[s].kind = "gen" /\ Len(run[s].calls) >= 6
        /\ run[s].calls[6].op = "refine"
        /\ run[s].local[1].mapImage # run[s].local[2].mapImage

\* Pass 4 run on the leak array without the optimisation before it.
FullAnalysis == ClusterScan(mapImage, style, leaks, 1, NewUint8Array(Len(leaks)))

\* C24: for every leak mask and cluster size threshold, detection returns the
\* needsRefinement that the cluster and solidity analysis alone returns, also
\* when the number of leak pixels equals the threshold.
C24_FastPathEquivalent ==
    Resolved => Last(results).needsRefinement = FullAnalysis.needsRefinement

\* The mask has exactly as many leak pixels as the threshold, not in one line.
C24_Witness ==
    /\ Resolved
    /\ Cardinality(LeakSet) = style.clusterSizeThreshold
    /\ Len(getConvexHull(PointsOf(LeakSet, mapImage.width))) > 2
    /\ ~Last(results).needsRefinement

\* Two leak pixels are linked when each lies in the square window of the other.
Linked(i, j) ==
    /\ i # j
    /\ Abs(XOf(i, mapImage.width) - XOf(j, mapImage.width)) <= SEARCH_RADIUS
    /\ Abs(YOf(i, mapImage.width) - YOf(j, mapImage.width)) <= SEARCH_RADIUS

\* The leak pixels reachable from the set S over links.
RECURSIVE Reach(_)
Reach(S) ==
    LET next == S \cup {j \in LeakSet : \E c \in S : Linked(c, j)}
    IN IF next = S THEN S ELSE Reach(next)

MaximalClusters == {Reach({i}) : i \in LeakSet}

\* More pixels than the threshold, a hull with an area, and more than three
\* pixels for every four units of hull area.
DenseBlob(C) ==
    LET hull == getConvexHull(PointsOf(C, mapImage.width))
        areaTwice == polygonAreaTwice(hull)
    IN /\ Cardinality(C) > style.clusterSizeThreshold
       /\ Len(hull) >= 3
       /\ areaTwice > 0
       /\ 8 * Cardinality(C) > 3 * areaTwice

\* C25: detection returns needsRefinement = true exactly when some maximal
\* cluster of leak pixels, connected through windows of radius 3, has more
\* pixels than the threshold, a hull of at least 3 vertices with area > 0 and
\* pixel count / hull area > 0.75; the scan stopping at the first such cluster
\* does not change that.
C25_BlobCharacterization ==
    Resolved =>
        (Last(results).needsRefinement <=> \E C \in MaximalClusters : DenseBlob(C))

\* The mask has two clusters; the one scanned first is no blob, the other is.
C25_Witness ==
    /\ Resolved
    /\ Last(results).needsRefinement
    /\ Cardinality(MaximalClusters) = 2
    /\ \E C \in MaximalClusters :
           /\ \A i \in LeakSet \ C : \E j \in C : j < i
           /\ ~DenseBlob(C)

\* All pixels of the cluster lie on one line.
Collinear(C) ==
    LET P == PointsOf(C, mapImage.width)
        p == CHOOSE x \in P : TRUE
    IN \A q \in P \ {p} : \A r \in P : crossProduct(p, q, r) = 0

\* C26: a cluster whose pixels are all collinear never makes needsRefinement
\* true, whatever its pixel count: its hull has at most 2 vertices or no area,
\* and the solidity, a division by the hull area, is not computed for it.
C26_CollinearNeverBlob ==
    Resolved =>
        LET clusters == {C \in MaximalClusters : Collinear(C)}
        IN /\ \A C \in clusters :
                  LET hull == getConvexHull(PointsOf(C, mapImage.width))
                  IN /\ Len(hull) <= 2 \/ polygonAreaTwice(hull) = 0
                     /\ ~SolidityComputed(C, mapImage.width, style.clusterSizeThreshold)
           /\ UNION clusters = LeakSet => ~Last(results).needsRefinement

\* A diagonal of three leak pixels, more than the threshold, was analysed.
C26_Witness ==
    /\ Resolved
    /\ Cardinality(LeakSet) > style.clusterSizeThreshold
    /\ MaximalClusters = {LeakSet}
    /\ Collinear(LeakSet)
    /\ \A i \in LeakSet, j \in LeakSet :
           i # j => (/\ XOf(i, mapImage.width) # XOf(j, mapImage.width)
                     /\ YOf(i, mapImage.width) # YOf(j, mapImage.width))
    /\ ~Last(results).needsRefinement

\* The message of the call carries the colour and flatness thresholds of the
\* style; its size threshold is scaled down to the size of the bitmaps.
SentFor(mapStyle) ==
    /\ style.colorMatchThresholdSq = StyleMessage(mapStyle).colorMatchThresholdSq
    /\ style.flatnessThresholdSq = StyleMessage(mapStyle).flatnessThresholdSq

\* The pixels closer than the tolerance to some palette colour.
WithinTolerance(toleranceSq) ==
    {i \in DOMAIN mapImage.data :
        \E c \in getBlueprintColorsRGB : colorDistanceSq(mapImage.data[i], c) < toleranceSq}

\* The pixels of same-coloured regions larger than the size threshold.
LargeFlatPatches ==
    {i \in DOMAIN mapImage.data :
        Cardinality(SameColourRegion(i)) > style.clusterSizeThreshold}

\* C27: for style 'pixel' the flat-patch pass is not run, the leak mask is
\* exactly the set of pixels whose squared distance to some palette colour is
\* strictly below 400, and the size threshold is 1000; for 'photorealistic' and
\* every other style the flat-patch pass runs with threshold 50, the palette
\* tolerance is 100 and the size threshold is 400; the pixel style has the
\* larger size threshold and the looser tolerance.
C27_StyleThresholds ==
    /\ StyleMessage("pixel") =
           [clusterSizeThreshold |-> 1000, colorMatchThresholdSq |-> 400,
            flatnessThresholdSq |-> NULL]
    /\ \A mapStyle \in MapStyles \ {"pixel"} :
           StyleMessage(mapStyle) =
               [clusterSizeThreshold |-> 400, colorMatchThresholdSq |-> 100,
                flatnessThresholdSq |-> 50]
    /\ \A mapStyle \in MapStyles \ {"pixel"} :
           /\ StyleMessage("pixel").clusterSizeThreshold
                  > StyleMessage(mapStyle).clusterSizeThreshold
           /\ StyleMessage("pixel").colorMatchThresholdSq
                  > StyleMessage(mapStyle).colorMatchThresholdSq
    /\ (workerPc \in {"palette_done", "detect_resolved"} /\ SentFor("pixel")) =>
           /\ visitedForFlatness = <<>>
           /\ LeakSet = WithinTolerance(400)
    /\ (workerPc \in {"palette_done", "detect_resolved"} /\ SentFor("photorealistic")) =>
           /\ Ones(visitedForFlatness) = DOMAIN mapImage.data
           /\ LeakSet = LargeFlatPatches \cup WithinTolerance(100)

\* A photorealistic analysis of a bitmap with a pixel at exactly the tolerance
\* from a palette colour, which is not flagged, beside a flagged flat patch of
\* background.
C27_Witness ==
    /\ workerPc = "detect_resolved" /\ SentFor("photorealistic")
    /\ \E i \in DOMAIN mapImage.data :
           mapImage.data[i] = NearGrass /\ i \notin LeakSet
    /\ \E i \in LeakSet : mapImage.data[i] = Background

\* A record without the two fields manualRefine may clear.
Appended(rec) == [rec EXCEPT !.isFinal = FALSE, !.finalReason = NoReason]

\* C28: records are removed from the revision history only by clearGeneration:
\* no other step (a generateMap run starting, manualRefine, a run failing)
\* makes the history shorter or replaces a record that was appended.
C28_OnlyClearRemoves ==
    [][lastEvent' # "clearGeneration" =>
         /\ Len(analysisHistory') >= Len(analysisHistory)
         /\ \A i \in DOMAIN analysisHistory :
                Appended(analysisHistory'[i]) = Appended(analysisHistory[i])]_vars

\* C29: whenever no run is in flight and the final image is non-null, the
\* history is non-empty and the final image is the mapImage of its last
\* record: after a successful generateMap, after a successful manualRefine and
\* after a failed manualRefine.
C29_FinalImageIsLastRecord ==
    (InFlight = {} /\ generatedImage # NULL) =>
        /\ Len(analysisHistory) >= 1
        /\ generatedImage = Last(analysisHistory).mapImage

\* A manualRefine run has failed after a generateMap run with a refinement
\* whose two images differ.
C29_Witness ==
    /\ InFlight = {} /\ generatedImage # NULL
    /\ lastEvent = "ManRefineRejects"
    /\ Len(analysisHistory) = 2
    /\ analysisHistory[1].mapImage # analysisHistory[2].mapImage

\* C30: in every reachable state every history record with isFinal = false has
\* passed = false, also the former last record once manualRefine was invoked
\* on a run that ended with finalReason 'passed'.
C30_NonFinalNotPassed ==
    \A i \in DOMAIN analysisHistory :
        ~analysisHistory[i].isFinal => ~analysisHistory[i].passed

====
